---- MODULE Spec2Model ----
(***************************************************************************)
(* Traffic-adaptive cellular-automaton hash                                *)
(* (chaincode/traffic-light/hash/cellular_automaton.py).                   *)
(*                                                                         *)
(* One call of traffic_adaptive_hash is a state machine: the automaton is  *)
(* seeded (init_state), rule, radius and step count are chosen, evolve is  *)
(* run once per generation, and get_hash / hex pack the result.            *)
(*                                                                         *)
(* A float density d is held as the integer d * DenScale; the grid values  *)
(* used are decimal literals for which int(d*64), int(d*255) and the       *)
(* comparisons with 0.3 and 0.7 agree between IEEE doubles and the exact   *)
(* rational arithmetic below.                                              *)
(***************************************************************************)
EXTENDS Integers, Sequences, FiniteSets, TLC

\* ------------------------------------------------------------------------
\* Program constants
\* ------------------------------------------------------------------------
\* TrafficAdaptiveCA(size=256)
size == 256
\* base_steps = 64
base_steps == 64
\* one unit of density is 1/DenScale
DenScale == 100000

\* ------------------------------------------------------------------------
\* Bounds of the model
\* ------------------------------------------------------------------------
\* the density grid of ParamSpec has GridN + 1 evenly spaced points of [0,1]
GridN == 20
\* ParamSpec draws urgency from -UrgencyMargin .. 10 + UrgencyMargin
UrgencyMargin == 10

\* ------------------------------------------------------------------------
\* Bind(e, F) is F(e) and Bind2(d, e, F) is F(d, e): the arguments are
\* evaluated once and F is applied to their values.
\* ------------------------------------------------------------------------
Bind(e, F(_)) == CHOOSE r \in { F(v) : v \in { e } } : TRUE
Bind2(d, e, F(_, _)) == CHOOSE r \in { F(v[1], v[2]) : v \in { << d, e >> } } : TRUE

\* ------------------------------------------------------------------------
\* Python integer operators on non-negative integers
\* ------------------------------------------------------------------------
\* int(x) of the rational num/den (den > 0): truncation toward zero
IntTrunc(num, den) == IF num >= 0 THEN num \div den ELSE -((-num) \div den)

\* x << n and x >> n
ShiftLeft(x, n) == x * (2 ^ n)
ShiftRight(x, n) == x \div (2 ^ n)

RECURSIVE AndBits(_, _)
AndBits(x, y) ==
    IF x = 0 \/ y = 0 THEN 0
    ELSE ((x % 2) * (y % 2)) + 2 * Bind2(x \div 2, y \div 2, AndBits)
\* x & y
BitAnd(x, y) == Bind2(x, y, AndBits)

RECURSIVE OrBits(_, _)
OrBits(x, y) ==
    IF x = 0 THEN y
    ELSE IF y = 0 THEN x
    ELSE (IF (x % 2) + (y % 2) > 0 THEN 1 ELSE 0) + 2 * Bind2(x \div 2, y \div 2, OrBits)
\* x | y
BitOr(x, y) == Bind2(x, y, OrBits)

RECURSIVE XorBits(_, _)
XorBits(x, y) ==
    IF x = 0 THEN y
    ELSE IF y = 0 THEN x
    ELSE (((x % 2) + (y % 2)) % 2) + 2 * Bind2(x \div 2, y \div 2, XorBits)
\* x ^ y
BitXor(x, y) == Bind2(x, y, XorBits)

\* ------------------------------------------------------------------------
\* hashlib.sha256 (FIPS 180-4).  A 32-bit word is the pair <<hi, lo>> of its
\* 16-bit halves, so that no intermediate value leaves TLC's integers.
\* ------------------------------------------------------------------------
WXor(a, b) ==
    Bind2(a, b, LAMBDA x, y : << XorBits(x[1], y[1]), XorBits(x[2], y[2]) >>)
WAnd(a, b) ==
    Bind2(a, b, LAMBDA x, y : << AndBits(x[1], y[1]), AndBits(x[2], y[2]) >>)
WNot(a) == Bind(a, LAMBDA x : << 65535 - x[1], 65535 - x[2] >>)
\* a + b mod 2^32
WAdd(a, b) ==
    Bind2(a, b, LAMBDA x, y :
        << (x[1] + y[1] + ((x[2] + y[2]) \div 65536)) % 65536, (x[2] + y[2]) % 65536 >>)
\* rotate right by n, 0 < n < 32
Rotr(a, n) ==
    Bind2(IF n >= 16 THEN << a[2], a[1] >> ELSE a, n % 16, LAMBDA x, m :
        IF m = 0 THEN x
        ELSE << (x[1] \div (2 ^ m)) + (x[2] % (2 ^ m)) * (2 ^ (16 - m)),
                (x[2] \div (2 ^ m)) + (x[1] % (2 ^ m)) * (2 ^ (16 - m)) >>)
\* shift right by n, 0 < n < 16
Shr(a, n) ==
    Bind(a, LAMBDA x :
        << x[1] \div (2 ^ n),
           (x[2] \div (2 ^ n)) + (x[1] % (2 ^ n)) * (2 ^ (16 - n)) >>)

ShaK == <<
    <<17034, 12184>>, <<28983, 17553>>, <<46528, 64463>>, <<59829, 56229>>,
    <<14678, 49755>>, <<23025, 4593>>, <<37439, 33444>>, <<43804, 24277>>,
    <<55303, 43672>>, <<4739, 23297>>, <<9265, 34238>>, <<21772, 32195>>,
    <<29374, 23924>>, <<32990, 45566>>, <<39900, 1703>>, <<49563, 61812>>,
    <<58523, 27073>>, <<61374, 18310>>, <<4033, 40390>>, <<9228, 41420>>,
    <<11753, 11375>>, <<19060, 33962>>, <<23728, 43484>>, <<30457, 35034>>,
    <<38974, 20818>>, <<43057, 50797>>, <<45059, 10184>>, <<48985, 32711>>,
    <<50912, 3059>>, <<54695, 37191>>, <<1738, 25425>>, <<5161, 10599>>,
    <<10167, 2693>>, <<11803, 8504>>, <<19756, 28156>>, <<21304, 3347>>,
    <<25866, 29524>>, <<30314, 2747>>, <<33218, 51502>>, <<37490, 11397>>,
    <<41663, 59553>>, <<43034, 26187>>, <<49739, 35696>>, <<51052, 20899>>,
    <<53650, 59417>>, <<54937, 1572>>, <<62478, 13701>>, <<4202, 41072>>,
    <<6564, 49430>>, <<7735, 27656>>, <<10056, 30540>>, <<13488, 48309>>,
    <<14620, 3251>>, <<20184, 43594>>, <<23452, 51791>>, <<26670, 28659>>,
    <<29839, 33518>>, <<30885, 25455>>, <<33992, 30740>>, <<36039, 520>>,
    <<37054, 65530>>, <<42064, 27883>>, <<48889, 41975>>, <<50801, 30962>> >>

ShaH0 == <<
    <<27145, 58983>>, <<47975, 44677>>, <<15470, 62322>>, <<42319, 62778>>,
    <<20750, 21119>>, <<39685, 26764>>, <<8067, 55723>>, <<23520, 52505>> >>

\* The padded message: data, 0x80, zeros to 56 mod 64, 64-bit bit length
ShaPad(data) ==
    Bind(data, LAMBDA m :
        m \o << 128 >> \o [i \in 1..((55 - Len(m)) % 64) |-> 0]
          \o << 0, 0, 0, 0 >>
          \o << ((8 * Len(m)) \div 16777216) % 256, ((8 * Len(m)) \div 65536) % 256,
                ((8 * Len(m)) \div 256) % 256, (8 * Len(m)) % 256 >>)

\* word j (0..15) of the 64-byte block starting after byte off, big-endian
BlockWord(msg, off, j) ==
    << 256 * msg[off + 4 * j + 1] + msg[off + 4 * j + 2],
       256 * msg[off + 4 * j + 3] + msg[off + 4 * j + 4] >>

SmallSigma0(x) == WXor(WXor(Rotr(x, 7), Rotr(x, 18)), Shr(x, 3))
SmallSigma1(x) == WXor(WXor(Rotr(x, 17), Rotr(x, 19)), Shr(x, 10))
BigSigma0(x) == WXor(WXor(Rotr(x, 2), Rotr(x, 13)), Rotr(x, 22))
BigSigma1(x) == WXor(WXor(Rotr(x, 6), Rotr(x, 11)), Rotr(x, 25))
ShaCh(x, y, z) == WXor(WAnd(x, y), WAnd(WNot(x), z))
ShaMaj(x, y, z) == WXor(WXor(WAnd(x, y), WAnd(x, z)), WAnd(y, z))

\* word Len(w) + 1 of the message schedule, from the words w before it
ShaNextWord(w) ==
    WAdd(WAdd(SmallSigma1(w[Len(w) - 1]), w[Len(w) - 6]),
         WAdd(SmallSigma0(w[Len(w) - 14]), w[Len(w) - 15]))

RECURSIVE ShaSchedule(_, _)
\* the first n words of the message schedule from its first words w
\* (the words are added by halves of the range to keep the evaluation shallow)
ShaSchedule(w, n) ==
    IF n <= Len(w) THEN w
    ELSE IF n = Len(w) + 1 THEN Bind(ShaNextWord(w), LAMBDA x : Append(w, x))
    ELSE Bind(ShaSchedule(w, (Len(w) + n) \div 2), LAMBDA nw : ShaSchedule(nw, n))

\* round t on the working variables v = <<a, b, c, d, e, f, g, h>>
ShaRound(t, v, w) ==
    Bind2(WAdd(WAdd(WAdd(v[8], BigSigma1(v[5])),
                    WAdd(ShaCh(v[5], v[6], v[7]), ShaK[t])),
               w[t]),
          WAdd(BigSigma0(v[1]), ShaMaj(v[1], v[2], v[3])),
          LAMBDA t1, t2 :
              << WAdd(t1, t2), v[1], v[2], v[3], WAdd(v[4], t1), v[5], v[6], v[7] >>)

RECURSIVE ShaRounds(_, _, _, _)
\* rounds lo..hi (by halves of the range)
ShaRounds(lo, hi, v, w) ==
    IF lo = hi THEN ShaRound(lo, v, w)
    ELSE Bind(ShaRounds(lo, (lo + hi) \div 2, v, w),
              LAMBDA nv : ShaRounds(((lo + hi) \div 2) + 1, hi, nv, w))

\* the compression of the block starting after byte off into h
ShaCompress(msg, off, h) ==
    Bind(ShaSchedule([j \in 1..16 |-> BlockWord(msg, off, j - 1)] \o << >>, 64),
         LAMBDA w :
             Bind(ShaRounds(1, 64, h, w), LAMBDA v :
                 << WAdd(h[1], v[1]), WAdd(h[2], v[2]), WAdd(h[3], v[3]), WAdd(h[4], v[4]),
                    WAdd(h[5], v[5]), WAdd(h[6], v[6]), WAdd(h[7], v[7]), WAdd(h[8], v[8]) >>))

RECURSIVE ShaBlocks(_, _, _)
ShaBlocks(msg, off, h) ==
    IF off >= Len(msg) THEN h
    ELSE Bind(ShaCompress(msg, off, h), LAMBDA nh : ShaBlocks(msg, off + 64, nh))

\* hashlib.sha256(data).digest(): 32 bytes, each word big-endian
sha256(data) ==
    Bind(ShaPad(data), LAMBDA msg :
        Bind(ShaBlocks(msg, 0, ShaH0), LAMBDA h :
            << h[1][1] \div 256, h[1][1] % 256, h[1][2] \div 256, h[1][2] % 256,
               h[2][1] \div 256, h[2][1] % 256, h[2][2] \div 256, h[2][2] % 256,
               h[3][1] \div 256, h[3][1] % 256, h[3][2] \div 256, h[3][2] % 256,
               h[4][1] \div 256, h[4][1] % 256, h[4][2] \div 256, h[4][2] % 256,
               h[5][1] \div 256, h[5][1] % 256, h[5][2] \div 256, h[5][2] % 256,
               h[6][1] \div 256, h[6][1] % 256, h[6][2] \div 256, h[6][2] % 256,
               h[7][1] \div 256, h[7][1] % 256, h[7][2] \div 256, h[7][2] % 256,
               h[8][1] \div 256, h[8][1] % 256, h[8][2] \div 256, h[8][2] % 256 >>))

\* ------------------------------------------------------------------------
\* str.encode('utf-8') and bytes.hex().  A text is a sequence of code points
\* (no surrogates).
\* ------------------------------------------------------------------------
Utf8Char(cp) ==
    IF cp < 128 THEN << cp >>
    ELSE IF cp < 2048 THEN << 192 + (cp \div 64), 128 + (cp % 64) >>
    ELSE IF cp < 65536
         THEN << 224 + (cp \div 4096), 128 + ((cp \div 64) % 64), 128 + (cp % 64) >>
         ELSE << 240 + (cp \div 262144), 128 + ((cp \div 4096) % 64),
                 128 + ((cp \div 64) % 64), 128 + (cp % 64) >>

RECURSIVE Utf8From(_, _, _)
\* the bytes of text[lo..hi], by halves
Utf8From(text, lo, hi) ==
    IF lo > hi THEN << >>
    ELSE IF lo = hi THEN Utf8Char(text[lo])
    ELSE Utf8From(text, lo, (lo + hi) \div 2) \o Utf8From(text, ((lo + hi) \div 2) + 1, hi)

\* input_data.encode('utf-8')
Utf8Encode(text) == Bind(text, LAMBDA t : Utf8From(t, 1, Len(t)))

HexDigits == << "0", "1", "2", "3", "4", "5", "6", "7",
                "8", "9", "a", "b", "c", "d", "e", "f" >>

RECURSIVE HexFrom(_, _)
HexFrom(bytes, k) ==
    IF k > Len(bytes) THEN << >>
    ELSE << HexDigits[(bytes[k] \div 16) + 1], HexDigits[(bytes[k] % 16) + 1] >>
             \o HexFrom(bytes, k + 1)

\* hash_bytes.hex(): two lowercase digits per byte, high nibble first
BytesHex(bytes) == HexFrom(bytes, 1)

\* ------------------------------------------------------------------------
\* class TrafficAdaptiveCA.  A Python list is a sequence; list[idx] is the
\* element idx + 1 of the sequence.
\* ------------------------------------------------------------------------
\* list[idx]
At(list, idx) == list[idx + 1]

\* a list given element by element, as a sequence value
List(f) == f \o << >>

\* list * n
Repeat(seq, n) ==
    Bind(seq, LAMBDA l : List([k \in 1..(Len(l) * n) |-> l[((k - 1) % Len(l)) + 1]]))

\* list[:n], n >= 0
Take(seq, n) == Bind(seq, LAMBDA l : SubSeq(l, 1, IF n < Len(l) THEN n ELSE Len(l)))

\* self.state = [0] * size
InitialState == Repeat(<< 0 >>, size)

\* for byte in bytes: for i in range(8): bits.append((byte >> (7 - i)) & 1)
BytesToBits(bytes) ==
    Bind(bytes, LAMBDA b :
        List([k \in 1..(8 * Len(b)) |->
                 BitAnd(ShiftRight(b[((k - 1) \div 8) + 1], 7 - ((k - 1) % 8)), 1)]))

\* density_seed scaled by 256 instead of 255
density_seed_256(traffic_density) == IntTrunc(traffic_density * 256, DenScale)

\* density_seed = int(traffic_density * 255)
density_seed(traffic_density) == IntTrunc(traffic_density * 255, DenScale)

\* bytes([density_seed]) raises ValueError outside range(0, 256); it is only
\* evaluated when the input gives fewer than size bits
init_state_raises(data, traffic_density) ==
    /\ 8 * Len(data) < size
    /\ \/ density_seed(traffic_density) < 0
       \/ density_seed(traffic_density) > 255

\* bits.extend((pad_bits * (needed // len(pad_bits) + 1))[:needed])
PadTo(bits, pad_bits, needed) ==
    bits \o Take(Repeat(pad_bits, (needed \div Len(pad_bits)) + 1), needed)

\* init_state without the padding: short inputs leave a short state
init_state_no_padding(data, traffic_density) == Take(BytesToBits(data), size)

\* TrafficAdaptiveCA.init_state: the new self.state
init_state(data, traffic_density) ==
    Bind(BytesToBits(data), LAMBDA bits :
        IF Len(bits) < size
        THEN Bind(BytesToBits(sha256(data \o << density_seed(traffic_density) >>)),
                  LAMBDA pad_bits : Take(PadTo(bits, pad_bits, size - Len(bits)), size))
        ELSE Take(bits, size))

\* select_traffic_rule with the first threshold taken inclusively (<= 0.3)
select_traffic_rule_inclusive(density, signal) ==
    IF signal = "EMERGENCY" THEN 184
    ELSE IF density * 10 <= 3 * DenScale
         THEN (IF signal = "GREEN" THEN 30 ELSE 90)
    ELSE IF density * 10 < 7 * DenScale
         THEN (IF signal = "YELLOW" THEN 110 ELSE 90)
    ELSE (IF signal = "RED" THEN 110 ELSE 184)

\* TrafficAdaptiveCA.select_traffic_rule
select_traffic_rule(density, signal) ==
    IF signal = "EMERGENCY" THEN 184
    ELSE IF density * 10 < 3 * DenScale
         THEN (IF signal = "GREEN" THEN 30 ELSE 90)
    ELSE IF density * 10 < 7 * DenScale
         THEN (IF signal = "YELLOW" THEN 110 ELSE 90)
    ELSE (IF signal = "RED" THEN 110 ELSE 184)

\* TrafficAdaptiveCA.adapt_neighborhood
adapt_neighborhood(signal) ==
    IF signal = "GREEN" THEN 1
    ELSE IF signal = "YELLOW" THEN 2
    ELSE IF signal = "RED" THEN 3
    ELSE IF signal = "EMERGENCY" THEN 5
    ELSE 1

\* neighborhood_bits on a line instead of a ring: cells beyond the ends read 0
neighborhood_bits_no_wrap(s, i, r) ==
    [k \in 1..(2 * r + 1) |->
        IF i + (k - 1 - r) < 0 \/ i + (k - 1 - r) >= size THEN 0 ELSE At(s, i + (k - 1 - r))]

\* neighborhood_bits: self.state[(i + offset) % self.size] for offset in
\* range(-radius, radius + 1)
neighborhood_bits(s, i, r) ==
    [k \in 1..(2 * r + 1) |-> At(s, (i + (k - 1 - r)) % size)]

RECURSIVE neighborhood_value(_, _, _)
\* for bit in neighborhood_bits: value = (value << 1) | bit
neighborhood_value(bits, k, value) ==
    IF k > Len(bits) THEN value
    ELSE Bind(BitOr(ShiftLeft(value, 1), bits[k]),
              LAMBDA v : neighborhood_value(bits, k + 1, v))

\* apply_rule with the bits of the window above the low 8 folded into the
\* mixing constant
apply_rule_folded(rule_no, r, value) ==
    IF r = 1
    THEN BitAnd(ShiftRight(rule_no, value), 1)
    ELSE Bind2(BitXor(rule_no, BitXor(value, ShiftRight(value, 8)) % 256), value % 8,
               LAMBDA extended_rule, bit_position :
                   BitAnd(ShiftRight(extended_rule, bit_position), 1))

\* apply_rule without the mixing of the rule with the neighborhood value
apply_rule_unmixed(rule_no, r, value) == BitAnd(ShiftRight(rule_no, value % 8), 1)

\* the rule applied to a neighborhood value
apply_rule(rule_no, r, value) ==
    IF r = 1
    THEN BitAnd(ShiftRight(rule_no, value), 1)
    ELSE Bind2(BitXor(rule_no, value % 256), value % 8,
               LAMBDA extended_rule, bit_position :
                   BitAnd(ShiftRight(extended_rule, bit_position), 1))

\* new_state[i]
new_cell(s, i, rule_no, r) ==
    Bind(List(neighborhood_bits(s, i, r)), LAMBDA bits :
        Bind(neighborhood_value(bits, 1, 0), LAMBDA value : apply_rule(rule_no, r, value)))

\* TrafficAdaptiveCA.evolve: new_state, built from self.state and then
\* assigned to it
evolve(s, rule_no, r) == List([k \in 1..size |-> new_cell(s, k - 1, rule_no, r)])

\* calculate_evolution_steps with the cap applied before the urgency is added
calculate_evolution_steps_cap_first(density, urg) ==
    LET capped == IF base_steps + IntTrunc(density * 64, DenScale) < 256
                  THEN base_steps + IntTrunc(density * 64, DenScale) ELSE 256
    IN  capped + urg * 10

\* TrafficAdaptiveCA.calculate_evolution_steps
calculate_evolution_steps(density, urg) ==
    LET density_factor == IntTrunc(density * 64, DenScale)
        urgency_factor == urg * 10
        total_steps == base_steps + density_factor + urgency_factor
    IN  IF total_steps < 256 THEN total_steps ELSE 256     \* min(total_steps, 256)

RECURSIVE evolve_times(_, _, _, _)
\* for _ in range(n): ca.evolve(rule, radius)   (by halves of the range)
evolve_times(s, rule_no, r, n) ==
    IF n <= 0 THEN s
    ELSE IF n = 1 THEN evolve(s, rule_no, r)
    ELSE Bind(evolve_times(s, rule_no, r, n \div 2),
              LAMBDA m : evolve_times(m, rule_no, r, n - (n \div 2)))

RECURSIVE hash_byte_lsb_first(_, _, _, _)
\* hash_byte packing bit 8i as the least significant bit of byte i
hash_byte_lsb_first(s, i, j, byte_val) ==
    IF j = 8 THEN byte_val
    ELSE Bind(IF i * 8 + j < Len(s)
              THEN BitOr(byte_val, ShiftLeft(At(s, i * 8 + j), j))
              ELSE byte_val,
              LAMBDA v : hash_byte_lsb_first(s, i, j + 1, v))

RECURSIVE hash_byte(_, _, _, _)
\* for j in range(8): if bit_idx < len(self.state): byte_val |= state[bit_idx] << (7 - j)
hash_byte(s, i, j, byte_val) ==
    IF j = 8 THEN byte_val
    ELSE Bind(IF i * 8 + j < Len(s)
              THEN BitOr(byte_val, ShiftLeft(At(s, i * 8 + j), 7 - j))
              ELSE byte_val,
              LAMBDA v : hash_byte(s, i, j + 1, v))

\* TrafficAdaptiveCA.get_hash(steps): hash_bytes, 32 bytes; steps is not read
get_hash(s, steps_arg) == List([k \in 1..32 |-> hash_byte(s, k - 1, 0, 0)])

\* traffic_adaptive_hash(text, density, signal, urg) as a function of its
\* arguments, for a call that does not raise
traffic_adaptive_hash(text, density, signal, urg) ==
    Bind(init_state(Utf8Encode(text), density), LAMBDA seeded :
        Bind(evolve_times(seeded, select_traffic_rule(density, signal),
                          adapt_neighborhood(signal),
                          calculate_evolution_steps(density, urg)),
             LAMBDA final :
                 BytesHex(get_hash(final, calculate_evolution_steps(density, urg)))))

\* ------------------------------------------------------------------------
\* Inputs of the calls explored
\* ------------------------------------------------------------------------
\* "" (the empty text)
EmptyText == << >>
\* "é1": 2 code points, 3 bytes
AccentText == << 233, 49 >>
\* "traffic_light_Main_1st" (quick_test.py): 22 bytes
QuickText == << 116, 114, 97, 102, 102, 105, 99, 95, 108, 105, 103, 104, 116, 95, 77, 97, 105, 110, 95, 49, 115, 116 >>
\* "block_12345_timestamp_1699800000" (test_data): exactly 32 bytes
BlockText == << 98, 108, 111, 99, 107, 95, 49, 50, 51, 52, 53, 95, 116, 105, 109, 101, 115, 116, 97, 109, 112, 95, 49, 54, 57, 57, 56, 48, 48, 48, 48, 48 >>
\* "block_12345_timestamp_169980000": the first 31 bytes of BlockText
Block31Text == << 98, 108, 111, 99, 107, 95, 49, 50, 51, 52, 53, 95, 116, 105, 109, 101, 115, 116, 97, 109, 112, 95, 49, 54, 57, 57, 56, 48, 48, 48, 48 >>
\* "intersection_Main_1st_signal_GREEN" (verify_different_inputs): 34 bytes
GreenText == << 105, 110, 116, 101, 114, 115, 101, 99, 116, 105, 111, 110, 95, 77, 97, 105, 110, 95, 49, 115, 116, 95, 115, 105, 103, 110, 97, 108, 95, 71, 82, 69, 69, 78 >>

Texts == { EmptyText, AccentText, QuickText, Block31Text, BlockText, GreenText }

\* "BLUE" stands for every unrecognized signal state
Signals == { "GREEN", "YELLOW", "RED", "EMERGENCY", "BLUE" }

\* the contract of a TrafficContext: density in [0,1], urgency in 0..10,
\* a recognized signal state
ValidDensity(d) == 0 <= d /\ d <= DenScale
ValidUrgency(u) == 0 <= u /\ u <= 10
ValidSignal(sg) == sg \in { "GREEN", "YELLOW", "RED", "EMERGENCY" }

\* the calls of the end-to-end specification: <<text, density, signal, urgency>>
Calls ==
    \* valid contexts
    ({ EmptyText, BlockText } \X { 0 } \X { "GREEN", "BLUE" } \X { 0 })
    \cup ({ QuickText } \X { 20000 } \X { "GREEN" } \X { 0 })
    \cup ({ AccentText, GreenText } \X { 50000 } \X { "YELLOW", "EMERGENCY" } \X { 0 })
    \cup ({ QuickText } \X { 100000 } \X { "RED" } \X { 1 })
    \cup ({ Block31Text } \X { 30000 } \X { "BLUE" } \X { 10 })
    \* contexts out of the contract
    \cup ({ QuickText, GreenText } \X { -50000, 150000 } \X { "GREEN" } \X { 0 })
    \cup ({ BlockText } \X { 0 } \X { "RED" } \X { -7, -1, 20 })

VARIABLES
    input_data,        \* the text hashed (code points)
    traffic_density,   \* density * DenScale
    signal_state,
    urgency,
    state,             \* ca.state
    rule,              \* the locals of traffic_adaptive_hash
    radius,
    steps,
    gen,               \* generations run so far by the loop
    hash_bytes,
    hash_hex,          \* the value returned
    pc,                \* the next statement of traffic_adaptive_hash
    prev               \* ca.state as it was before the last statement

vars == << input_data, traffic_density, signal_state, urgency, state, rule,
           radius, steps, gen, hash_bytes, hash_hex, pc, prev >>

None == "None"

VARIABLES
    calls,             \* per call in flight: its arguments, locals and position
    automata,          \* the TrafficAdaptiveCA instances: instance -> its state
    scheduler          \* how the calls are run: "threads" or "sequential"

callVars == << calls, automata, scheduler >>

\* no other call of the module is in flight
NoCalls ==
    /\ calls = << >>
    /\ automata = << >>
    /\ scheduler = None

\* data = input_data.encode('utf-8'); ca = TrafficAdaptiveCA(size=256)
Constructed ==
    /\ state = InitialState
    /\ prev = InitialState
    /\ rule = None
    /\ radius = None
    /\ steps = None
    /\ gen = 0
    /\ hash_bytes = None
    /\ hash_hex = None

Init ==
    /\ \E c \in Calls :
          /\ input_data = c[1]
          /\ traffic_density = c[2]
          /\ signal_state = c[3]
          /\ urgency = c[4]
    /\ Constructed
    /\ pc = "init_state"
    /\ NoCalls

\* ca.init_state(data, traffic_density)
InitState ==
    /\ pc = "init_state"
    /\ prev' = state
    /\ UNCHANGED callVars
    /\ IF init_state_raises(Utf8Encode(input_data), traffic_density)
       THEN /\ pc' = "ValueError"
            /\ state' = state
       ELSE /\ pc' = "select_traffic_rule"
            /\ state' = init_state(Utf8Encode(input_data), traffic_density)
    /\ UNCHANGED << input_data, traffic_density, signal_state, urgency, rule,
                    radius, steps, gen, hash_bytes, hash_hex >>

\* rule = ca.select_traffic_rule(traffic_density, signal_state)
SelectTrafficRule ==
    /\ pc = "select_traffic_rule"
    /\ rule' = select_traffic_rule(traffic_density, signal_state)
    /\ pc' = "adapt_neighborhood"
    /\ prev' = state
    /\ UNCHANGED callVars
    /\ UNCHANGED << input_data, traffic_density, signal_state, urgency, state,
                    radius, steps, gen, hash_bytes, hash_hex >>

\* radius = ca.adapt_neighborhood(signal_state)
AdaptNeighborhood ==
    /\ pc = "adapt_neighborhood"
    /\ radius' = adapt_neighborhood(signal_state)
    /\ pc' = "calculate_evolution_steps"
    /\ prev' = state
    /\ UNCHANGED callVars
    /\ UNCHANGED << input_data, traffic_density, signal_state, urgency, state,
                    rule, steps, gen, hash_bytes, hash_hex >>

\* steps = ca.calculate_evolution_steps(traffic_density, urgency)
CalculateEvolutionSteps ==
    /\ pc = "calculate_evolution_steps"
    /\ steps' = calculate_evolution_steps(traffic_density, urgency)
    /\ pc' = "evolve"
    /\ prev' = state
    /\ UNCHANGED callVars
    /\ UNCHANGED << input_data, traffic_density, signal_state, urgency, state,
                    rule, radius, gen, hash_bytes, hash_hex >>

\* for _ in range(steps): ca.evolve(rule, radius)   (one iteration)
Evolve ==
    /\ pc = "evolve"
    /\ gen < steps
    /\ state' = evolve(state, rule, radius)
    /\ prev' = state
    /\ UNCHANGED callVars
    /\ gen' = gen + 1
    /\ UNCHANGED << input_data, traffic_density, signal_state, urgency, rule,
                    radius, steps, hash_bytes, hash_hex, pc >>

\* the loop is over: hash_bytes = ca.get_hash(steps)
GetHash ==
    /\ pc = "evolve"
    /\ gen >= steps
    /\ hash_bytes' = get_hash(state, steps)
    /\ pc' = "hex"
    /\ prev' = state
    /\ UNCHANGED callVars
    /\ UNCHANGED << input_data, traffic_density, signal_state, urgency, state,
                    rule, radius, steps, gen, hash_hex >>

\* return hash_bytes.hex()
ReturnHex ==
    /\ pc = "hex"
    /\ hash_hex' = BytesHex(hash_bytes)
    /\ pc' = "done"
    /\ prev' = state
    /\ UNCHANGED callVars
    /\ UNCHANGED << input_data, traffic_density, signal_state, urgency, state,
                    rule, radius, steps, gen, hash_bytes >>

Next ==
    \/ InitState
    \/ SelectTrafficRule
    \/ AdaptNeighborhood
    \/ CalculateEvolutionSteps
    \/ Evolve
    \/ GetHash
    \/ ReturnHex

\* traffic_adaptive_hash, one call from each of Calls
Spec == Init /\ [][Next]_vars

\* ------------------------------------------------------------------------
\* The choice of rule, radius and step count over a grid of contexts: the
\* call of traffic_adaptive_hash on a 32-byte text, up to its loop
\* ------------------------------------------------------------------------
\* the grid of [0,1] and the values on both sides of the thresholds 0.3, 0.7
\* and of the first step of int(density * 64)
ParamDensities ==
    { (k * DenScale) \div GridN : k \in 0..GridN }
    \cup { 1562, 1563, 29999, 30000, 30001, 69999, 70000, 70001, 99999 }

ParamUrgencies == (0 - UrgencyMargin)..(10 + UrgencyMargin)

ParamInit ==
    /\ input_data = BlockText
    /\ traffic_density \in ParamDensities
    /\ signal_state \in Signals
    /\ urgency \in ParamUrgencies
    /\ Constructed
    /\ pc = "init_state"
    /\ NoCalls

ParamNext ==
    \/ InitState
    \/ SelectTrafficRule
    \/ AdaptNeighborhood
    \/ CalculateEvolutionSteps

ParamSpec == ParamInit /\ [][ParamNext]_vars

\* ------------------------------------------------------------------------
\* Properties
\* ------------------------------------------------------------------------
\* the statements of traffic_adaptive_hash already executed
AfterRule == pc \in { "adapt_neighborhood", "calculate_evolution_steps", "evolve", "hex", "done" }
AfterSteps == pc \in { "evolve", "hex", "done" }

C2_StepFormula ==
    (AfterSteps /\ ValidDensity(traffic_density)) =>
        LET total == 64 + ((traffic_density * 64) \div DenScale) + urgency * 10
        IN  /\ total <= 256 => steps = total
            /\ total > 256 => steps = 256
            /\ ValidUrgency(urgency) => (64 <= steps /\ steps <= 256)
            /\ (traffic_density = 0 /\ urgency = 0) => steps = 64

\* C2 witness: a sum above the cap has been cut to 256.
C2_Witness ==
    /\ AfterSteps
    /\ ValidDensity(traffic_density)
    /\ 64 + ((traffic_density * 64) \div DenScale) + urgency * 10 > 256
    /\ steps = 256

\* x clamped to lo..hi
Clamp(x, lo, hi) == IF x < lo THEN lo ELSE IF x > hi THEN hi ELSE x

\* C3: traffic_adaptive_hash never signals an error, whatever the text
\* (texts shorter than 32 bytes included), density, urgency and signal state.
C3_NeverSignalsError == pc # "ValueError"

\* C4: a call with density outside [0,1] or urgency outside 0..10 selects
\* the same rule, runs the same number of generations (never fewer than 64)
\* and returns the same digest as the call with density and urgency clamped.
C4_OutOfRangeClamped ==
    pc = "done" =>
        /\ rule = select_traffic_rule(Clamp(traffic_density, 0, DenScale), signal_state)
        /\ gen >= 64
        /\ gen = calculate_evolution_steps(Clamp(traffic_density, 0, DenScale),
                                           Clamp(urgency, 0, 10))
        /\ hash_hex = traffic_adaptive_hash(input_data, Clamp(traffic_density, 0, DenScale),
                                            signal_state, Clamp(urgency, 0, 10))

\* a generation has just been run: state is evolve(prev, rule, radius)
JustEvolved == pc = "evolve" /\ gen > 0

\* bit number b of the non-negative integer x
BitOf(x, b) == (x \div (2 ^ b)) % 2

\* C5: with radius 1, one evolve takes s to s' where s'[i] is bit number
\* 4*s[(i-1) mod 256] + 2*s[i] + s[(i+1) mod 256] of the rule, for every i
\* in 0..255, cells 0 and 255 wrapping around the ring, all from the prior
\* generation s.
C5_Radius1Generation ==
    (JustEvolved /\ radius = 1) =>
        \A i \in 0..255 :
            At(state, i) = BitOf(rule, 4 * At(prev, (i - 1) % 256) + 2 * At(prev, i)
                                         + At(prev, (i + 1) % 256))

\* C5 witness: a radius-1 generation under rule 30 in which cell 0 is set
\* by its left neighbour, cell 255, alone (window 100) and cell 255 by its
\* right neighbour, cell 0 of another generation.
C5_Witness ==
    /\ JustEvolved /\ radius = 1 /\ rule = 30
    /\ At(prev, 255) = 1 /\ At(prev, 0) = 0 /\ At(prev, 1) = 0
    /\ At(state, 0) = 1

RECURSIVE WindowSum(_, _, _, _)
\* the bits s[(i-r) mod 256] .. s[(i+r) mod 256] from offset k - r on, as an
\* unsigned integer whose most significant bit is the bit at offset -r
WindowSum(s, i, r, k) ==
    IF k > 2 * r THEN 0
    ELSE At(s, (i - r + k) % 256) * (2 ^ (2 * r - k)) + WindowSum(s, i, r, k + 1)

\* bit number (w mod 8) of (rule XOR (w mod 256))
MixedBit(rule_no, w) == (BitOf(rule_no, w % 8) + BitOf(w % 256, w % 8)) % 2

\* C6: with radius r > 1 (2, 3 or 5), one evolve takes s to s' where, with w
\* the 2r+1 bits s[(i-r) mod 256] .. s[(i+r) mod 256] read as an unsigned
\* integer, s'[i] is bit number (w mod 8) of (rule XOR (w mod 256)), for
\* every i in 0..255, all from the prior generation s.
C6_WideRadiusGeneration ==
    (JustEvolved /\ radius > 1) =>
        /\ radius \in { 2, 3, 5 }
        /\ \A i \in 0..255 :
               At(state, i) = MixedBit(rule, WindowSum(prev, i, radius, 0))

\* C6 witness: a radius-5 generation in which the window of cell 0, which
\* wraps over cells 251..255, has a set bit above its low 8 bits and the
\* mixing changes the rule's bit.
C6_Witness ==
    /\ JustEvolved /\ radius = 5
    /\ WindowSum(prev, 0, 5, 0) >= 256
    /\ At(prev, 251) = 1
    /\ At(state, 0) # BitOf(rule, WindowSum(prev, 0, 5, 0) % 8)

\* C7: after seeding, evolve is run exactly steps consecutive times, steps
\* being the result of calculate_evolution_steps for the call's density and
\* urgency, every generation with the rule and radius chosen once before the
\* loop; the digest is extracted only after the last generation.
C7_RunsExactlyStepsGenerations ==
    /\ AfterSteps =>
           /\ steps = calculate_evolution_steps(traffic_density, urgency)
           /\ rule = select_traffic_rule(traffic_density, signal_state)
           /\ radius = adapt_neighborhood(signal_state)
    /\ JustEvolved => state = evolve(prev, rule, radius)
    /\ pc = "evolve" => hash_bytes = None
    /\ pc \in { "hex", "done" } => gen = steps

\* C8: for every input of n >= 0 bytes and every density in [0,1],
\* init_state leaves exactly 256 bits: the first min(8n, 256) are the input
\* bits, most significant bit of each byte first (for n >= 32 the first 256
\* input bits, the rest discarded); for n < 32 the other 256 - 8n bits are
\* the leading bits, most significant first, of the SHA-256 digest of the
\* input followed by the byte floor(density*255); for the empty input the
\* whole state is that stream.
C8_SeedLayout ==
    (pc = "select_traffic_rule" /\ ValidDensity(traffic_density)) =>
        Bind(Utf8Encode(input_data), LAMBDA data :
            /\ Len(state) = 256
            /\ \A k \in 0..255 :
                   k < 8 * Len(data) => At(state, k) = BitOf(data[(k \div 8) + 1], 7 - (k % 8))
            /\ Len(data) < 32 =>
                   Bind(sha256(data \o << (traffic_density * 255) \div DenScale >>),
                        LAMBDA digest :
                            \A m \in 0..(255 - 8 * Len(data)) :
                                At(state, 8 * Len(data) + m)
                                    = BitOf(digest[(m \div 8) + 1], 7 - (m % 8))))

\* C8 witness: a 3-byte input seeded at density 0.5: 24 input bits, then 232
\* bits of padding, the last of them set.
C8_Witness ==
    /\ pc = "select_traffic_rule"
    /\ input_data = AccentText
    /\ traffic_density * 2 = DenScale
    /\ Len(state) = 256
    /\ \E k \in 24..255 : At(state, k) = 1
    /\ \E k \in 24..255 : At(state, k) = 0

\* C9: get_hash maps the state to 32 bytes, byte i being the sum over j in
\* 0..7 of state[8i+j] * 2^(7-j); every state bit is used once, the result
\* does not depend on the steps argument, and the state is left unchanged.
C9_DigestPacking ==
    pc \in { "hex", "done" } =>
        /\ Len(hash_bytes) = 32
        /\ Len(state) = 8 * Len(hash_bytes)
        /\ \A i \in 0..31 :
               hash_bytes[i + 1]
                   = 128 * At(state, 8 * i) + 64 * At(state, 8 * i + 1)
                     + 32 * At(state, 8 * i + 2) + 16 * At(state, 8 * i + 3)
                     + 8 * At(state, 8 * i + 4) + 4 * At(state, 8 * i + 5)
                     + 2 * At(state, 8 * i + 6) + At(state, 8 * i + 7)
        /\ \A k \in { 0, 64, 256 } : get_hash(state, k) = hash_bytes
        /\ pc = "hex" => state = prev

\* C9 witness: a digest just extracted with a byte whose most and least
\* significant bits differ.
C9_Witness ==
    /\ pc = "hex"
    /\ \E i \in 1..32 : (hash_bytes[i] \div 128) # (hash_bytes[i] % 2)

ValidContext ==
    ValidDensity(traffic_density) /\ ValidUrgency(urgency) /\ ValidSignal(signal_state)

LowerHex == << "0", "1", "2", "3", "4", "5", "6", "7",
               "8", "9", "a", "b", "c", "d", "e", "f" >>

\* the value of a lowercase hexadecimal character
HexValue(c) == (CHOOSE v \in 1..16 : LowerHex[v] = c) - 1

\* C10: for every text and every valid context the state holds exactly 256
\* values, each 0 or 1, after seeding and after every generation, and the
\* call returns exactly 64 lowercase hexadecimal characters encoding 32
\* bytes.
C10_ValidCallFormat ==
    ValidContext =>
        /\ pc # "ValueError"
        /\ Len(state) = 256
        /\ \A i \in 0..255 : At(state, i) \in { 0, 1 }
        /\ pc = "done" =>
               /\ Len(hash_hex) = 64
               /\ \A k \in 1..64 : \E v \in 1..16 : hash_hex[k] = LowerHex[v]
               /\ Len(hash_bytes) = 32
               /\ \A i \in 1..32 :
                      16 * HexValue(hash_hex[2 * i - 1]) + HexValue(hash_hex[2 * i])
                          = hash_bytes[i]

\* C10 witness: the empty text at density 0.0 has returned its digest.
C10_Witness ==
    /\ ValidContext
    /\ pc = "done"
    /\ input_data = << >>
    /\ traffic_density = 0
    /\ Len(hash_hex) = 64

\* ------------------------------------------------------------------------
\* Several calls in flight: each call of traffic_adaptive_hash with its own
\* locals and its own TrafficAdaptiveCA instance, run by threads (steps
\* interleaved in any order) or one after the other
\* ------------------------------------------------------------------------
Procs == { 1, 2 }

\* "intersection_Main_1st_signal_RED" (verify_different_inputs): 32 bytes
RedText == << 105, 110, 116, 101, 114, 115, 101, 99, 116, 105, 111, 110, 95, 77, 97, 105, 110, 95, 49, 115, 116, 95, 115, 105, 103, 110, 97, 108, 95, 82, 69, 68 >>
\* "block_timestamp_1234567890_transactions_data" (mining_simulation): 44 bytes
MiningText == << 98, 108, 111, 99, 107, 95, 116, 105, 109, 101, 115, 116, 97, 109, 112, 95, 49, 50, 51, 52, 53, 54, 55, 56, 57, 48, 95, 116, 114, 97, 110, 115, 97, 99, 116, 105, 111, 110, 115, 95, 100, 97, 116, 97 >>

RECURSIVE DecimalDigits(_)
\* the decimal digits of n >= 0, as code points
DecimalDigits(n) ==
    IF n < 10 THEN << 48 + n >> ELSE DecimalDigits(n \div 10) \o << 48 + (n % 10) >>

\* str(n) for an int n
IntStr(n) == IF n < 0 THEN << 45 >> \o DecimalDigits(0 - n) ELSE DecimalDigits(n)

\* one instance shared by every call
ca_instance_shared(p) == 1

\* ca = TrafficAdaptiveCA(size=256): the instance of call p, a new object
\* for every call
ca_instance(p) == p

\* what the call returns, or the error it raises, when it runs alone
result_alone(text, density, signal, urg) ==
    IF init_state_raises(Utf8Encode(text), density)
    THEN "ValueError"
    ELSE traffic_adaptive_hash(text, density, signal, urg)

\* a call traffic_adaptive_hash(text, density, signal, urg) about to start
DirectCall(text, density, signal, urg) ==
    [ fn |-> "traffic_adaptive_hash", args |-> << >>,
      input_data |-> text, traffic_density |-> density,
      signal_state |-> signal, urgency |-> urg,
      ca |-> 0, rule |-> None, radius |-> None, steps |-> None, gen |-> 0,
      hash_bytes |-> None, hash_hex |-> None,
      pc |-> "traffic_adaptive_hash",
      alone |-> None ]

\* the single-call variables are not used while several calls are in flight
NoSingleCall ==
    /\ input_data = None /\ traffic_density = None /\ signal_state = None
    /\ urgency = None /\ state = None /\ rule = None /\ radius = None
    /\ steps = None /\ gen = None /\ hash_bytes = None /\ hash_hex = None
    /\ pc = None /\ prev = None

Returned(p) == calls[p].pc \in { "done", "ValueError" }

\* call p may take a step: threads run in any order, a sequential caller
\* starts call 2 when call 1 has returned
CanRun(p) == scheduler = "threads" \/ p = 1 \/ Returned(1)

\* data = input_data.encode('utf-8'); ca = TrafficAdaptiveCA(size=256)
Construct(p) ==
    /\ CanRun(p)
    /\ calls[p].pc = "traffic_adaptive_hash"
    /\ calls' = [calls EXCEPT ![p] = [@ EXCEPT !.ca = ca_instance(p), !.pc = "init_state"]]
    /\ automata' = [automata EXCEPT ![ca_instance(p)] = InitialState]
    /\ UNCHANGED << scheduler, vars >>

\* ca.init_state(data, traffic_density)
CallInitState(p) ==
    /\ CanRun(p)
    /\ calls[p].pc = "init_state"
    /\ IF init_state_raises(Utf8Encode(calls[p].input_data), calls[p].traffic_density)
       THEN /\ calls' = [calls EXCEPT ![p] = [@ EXCEPT !.pc = "ValueError"]]
            /\ automata' = automata
       ELSE /\ calls' = [calls EXCEPT ![p] = [@ EXCEPT !.pc = "select_traffic_rule"]]
            /\ automata' = [automata EXCEPT ![calls[p].ca] =
                               init_state(Utf8Encode(calls[p].input_data),
                                          calls[p].traffic_density)]
    /\ UNCHANGED << scheduler, vars >>

\* rule = ca.select_traffic_rule(traffic_density, signal_state)
CallSelectTrafficRule(p) ==
    /\ CanRun(p)
    /\ calls[p].pc = "select_traffic_rule"
    /\ calls' = [calls EXCEPT ![p] =
                    [@ EXCEPT !.rule = select_traffic_rule(calls[p].traffic_density,
                                                           calls[p].signal_state),
                              !.pc = "adapt_neighborhood"]]
    /\ UNCHANGED << automata, scheduler, vars >>

\* radius = ca.adapt_neighborhood(signal_state)
CallAdaptNeighborhood(p) ==
    /\ CanRun(p)
    /\ calls[p].pc = "adapt_neighborhood"
    /\ calls' = [calls EXCEPT ![p] =
                    [@ EXCEPT !.radius = adapt_neighborhood(calls[p].signal_state),
                              !.pc = "calculate_evolution_steps"]]
    /\ UNCHANGED << automata, scheduler, vars >>

\* steps = ca.calculate_evolution_steps(traffic_density, urgency)
CallCalculateEvolutionSteps(p) ==
    /\ CanRun(p)
    /\ calls[p].pc = "calculate_evolution_steps"
    /\ calls' = [calls EXCEPT ![p] =
                    [@ EXCEPT !.steps = calculate_evolution_steps(calls[p].traffic_density,
                                                                  calls[p].urgency),
                              !.pc = "evolve"]]
    /\ UNCHANGED << automata, scheduler, vars >>

\* for _ in range(steps): ca.evolve(rule, radius)   (one iteration)
CallEvolve(p) ==
    /\ CanRun(p)
    /\ calls[p].pc = "evolve"
    /\ calls[p].gen < calls[p].steps
    /\ automata' = [automata EXCEPT ![calls[p].ca] =
                       evolve(automata[calls[p].ca], calls[p].rule, calls[p].radius)]
    /\ calls' = [calls EXCEPT ![p] = [@ EXCEPT !.gen = @ + 1]]
    /\ UNCHANGED << scheduler, vars >>

\* the loop is over: hash_bytes = ca.get_hash(steps)
CallGetHash(p) ==
    /\ CanRun(p)
    /\ calls[p].pc = "evolve"
    /\ calls[p].gen >= calls[p].steps
    /\ calls' = [calls EXCEPT ![p] =
                    [@ EXCEPT !.hash_bytes = get_hash(automata[calls[p].ca], calls[p].steps),
                              !.pc = "hex"]]
    /\ UNCHANGED << automata, scheduler, vars >>

\* return hash_bytes.hex()
CallReturnHex(p) ==
    /\ CanRun(p)
    /\ calls[p].pc = "hex"
    /\ calls' = [calls EXCEPT ![p] =
                    [@ EXCEPT !.hash_hex = BytesHex(calls[p].hash_bytes), !.pc = "done"]]
    /\ UNCHANGED << automata, scheduler, vars >>

\* ------------------------------------------------------------------------
\* intersection_hash and block_hash_with_traffic
\* ------------------------------------------------------------------------
\* weather_factor is held in tenths
WeatherScale == 10

RECURSIVE Join(_, _)
\* sep.join(parts)
Join(parts, sep) ==
    IF Len(parts) = 0 THEN << >>
    ELSE IF Len(parts) = 1 THEN parts[1]
    ELSE parts[1] \o sep \o Join(Tail(parts), sep)

\* the characters of a signal state
SignalText(sg) ==
    CASE sg = "GREEN" -> << 71, 82, 69, 69, 78 >>
      [] sg = "YELLOW" -> << 89, 69, 76, 76, 79, 87 >>
      [] sg = "RED" -> << 82, 69, 68 >>
      [] sg = "EMERGENCY" -> << 69, 77, 69, 82, 71, 69, 78, 67, 89 >>
      [] OTHER -> << 66, 76, 85, 69 >>

\* repr(s) of a str without quotes or escapes: 's'
StrRepr(text) == << 39 >> \o text \o << 39 >>

\* str(d) of a dict of str keys, given as the sequence of its items with
\* the values already converted: {'k': v, 'k': v}
DictStr(items) ==
    << 123 >>
    \o Join([k \in 1..Len(items) |-> StrRepr(items[k][1]) \o << 58, 32 >> \o items[k][2]],
            << 44, 32 >>)
    \o << 125 >>

\* str(x) of a float x with one decimal, held in tenths
FloatStr(w) ==
    (IF w < 0 THEN << 45 >> ELSE << >>)
    \o DecimalDigits((IF w < 0 THEN 0 - w ELSE w) \div WeatherScale)
    \o << 46 >>
    \o DecimalDigits((IF w < 0 THEN 0 - w ELSE w) % WeatherScale)

RECURSIVE SumValues(_, _)
\* sum(vehicle_counts.values())
SumValues(items, k) ==
    IF k > Len(items) THEN 0 ELSE items[k][2] + SumValues(items, k + 1)

total_vehicles(vehicle_counts) == SumValues(vehicle_counts, 1)

\* avg_density = min(total_vehicles / 40.0, 1.0)
avg_density(vehicle_counts) ==
    Bind((total_vehicles(vehicle_counts) * DenScale) \div 40,
         LAMBDA d : IF d < DenScale THEN d ELSE DenScale)

\* adjusted_density = min(avg_density * weather_factor, 1.0)
adjusted_density(vehicle_counts, weather_factor) ==
    Bind((avg_density(vehicle_counts) * weather_factor) \div WeatherScale,
         LAMBDA d : IF d < DenScale THEN d ELSE DenScale)

\* overall_state: the most restrictive of the signal states
overall_state(signal_states) ==
    IF \E k \in 1..Len(signal_states) : signal_states[k][2] = "RED" THEN "RED"
    ELSE IF \E k \in 1..Len(signal_states) : signal_states[k][2] = "YELLOW" THEN "YELLOW"
    ELSE "GREEN"

\* f"{intersection_id}|{timestamp}|{signal_states}|{vehicle_counts}|{weather_factor}"
intersection_input_data(intersection_id, timestamp, signal_states, vehicle_counts, weather_factor) ==
    Join(<< intersection_id,
            IntStr(timestamp),
            DictStr([k \in 1..Len(signal_states) |->
                        << signal_states[k][1], StrRepr(SignalText(signal_states[k][2])) >>]),
            DictStr([k \in 1..Len(vehicle_counts) |->
                        << vehicle_counts[k][1], IntStr(vehicle_counts[k][2]) >>]),
            FloatStr(weather_factor) >>,
         << 124 >>)

\* urgency = min(int(total_vehicles / 4), 10)
intersection_urgency(vehicle_counts) ==
    Bind(IntTrunc(total_vehicles(vehicle_counts), 4),
         LAMBDA u : IF u < 10 THEN u ELSE 10)

\* tx_data = "|".join([str(tx) for tx in transactions])
tx_data(transactions) == Join(transactions, << 124 >>)

\* the serialization with the nonce put first
block_data_nonce_first(block_index, previous_hash, timestamp, transactions, nonce) ==
    Join(<< IntStr(nonce), IntStr(block_index), previous_hash, IntStr(timestamp),
            tx_data(transactions) >>, << 124 >>)

\* block_data = f"{block_index}|{previous_hash}|{timestamp}|{tx_data}|{nonce}"
block_data(block_index, previous_hash, timestamp, transactions, nonce) ==
    Join(<< IntStr(block_index), previous_hash, IntStr(timestamp),
            tx_data(transactions), IntStr(nonce) >>, << 124 >>)

\* state: GREEN below 0.3, YELLOW below 0.7, RED otherwise
block_state(network_congestion) ==
    IF 10 * network_congestion < 3 * DenScale THEN "GREEN"
    ELSE IF 10 * network_congestion < 7 * DenScale THEN "YELLOW"
    ELSE "RED"

\* urgency = int(network_congestion * 10)
block_urgency(network_congestion) == IntTrunc(network_congestion * 10, DenScale)

\* intersection_hash(a) as a function of its arguments
intersection_hash(a) ==
    result_alone(intersection_input_data(a.intersection_id, a.timestamp, a.signal_states,
                                         a.vehicle_counts, a.weather_factor),
                 adjusted_density(a.vehicle_counts, a.weather_factor),
                 overall_state(a.signal_states),
                 intersection_urgency(a.vehicle_counts))

\* block_hash_with_traffic(a) as a function of its arguments
block_hash_with_traffic(a) ==
    result_alone(block_data(a.block_index, a.previous_hash, a.timestamp, a.transactions,
                            a.nonce),
                 a.network_congestion,
                 block_state(a.network_congestion),
                 block_urgency(a.network_congestion))

\* a call of a derived function about to start
DerivedCall(name, a) ==
    [ fn |-> name, args |-> a,
      input_data |-> None, traffic_density |-> None,
      signal_state |-> None, urgency |-> None,
      ca |-> 0, rule |-> None, radius |-> None, steps |-> None, gen |-> 0,
      hash_bytes |-> None, hash_hex |-> None,
      pc |-> name,
      alone |-> None ]

\* the body of intersection_hash up to its call of traffic_adaptive_hash
IntersectionHash(p) ==
    /\ CanRun(p)
    /\ calls[p].pc = "intersection_hash"
    /\ LET a == calls[p].args
       IN  calls' = [calls EXCEPT ![p] =
               [@ EXCEPT !.input_data =
                             List(intersection_input_data(a.intersection_id, a.timestamp,
                                                          a.signal_states, a.vehicle_counts,
                                                          a.weather_factor)),
                         !.traffic_density = adjusted_density(a.vehicle_counts,
                                                              a.weather_factor),
                         !.signal_state = overall_state(a.signal_states),
                         !.urgency = intersection_urgency(a.vehicle_counts),
                         !.pc = "traffic_adaptive_hash"]]
    /\ UNCHANGED << automata, scheduler, vars >>

\* the body of block_hash_with_traffic up to its call of traffic_adaptive_hash
BlockHashWithTraffic(p) ==
    /\ CanRun(p)
    /\ calls[p].pc = "block_hash_with_traffic"
    /\ LET a == calls[p].args
       IN  calls' = [calls EXCEPT ![p] =
               [@ EXCEPT !.input_data =
                             List(block_data(a.block_index, a.previous_hash, a.timestamp,
                                             a.transactions, a.nonce)),
                         !.traffic_density = a.network_congestion,
                         !.signal_state = block_state(a.network_congestion),
                         !.urgency = block_urgency(a.network_congestion),
                         !.pc = "traffic_adaptive_hash"]]
    /\ UNCHANGED << automata, scheduler, vars >>

CallNext ==
    \E p \in Procs :
        \/ IntersectionHash(p)
        \/ BlockHashWithTraffic(p)
        \/ Construct(p)
        \/ CallInitState(p)
        \/ CallSelectTrafficRule(p)
        \/ CallAdaptNeighborhood(p)
        \/ CallCalculateEvolutionSteps(p)
        \/ CallEvolve(p)
        \/ CallGetHash(p)
        \/ CallReturnHex(p)

\* ------------------------------------------------------------------------
\* Inputs of the calls in flight
\* ------------------------------------------------------------------------
\* "Main-1st", 1699800000 and the directions of the docstring of
\* intersection_hash
MainFirstText == << 77, 97, 105, 110, 45, 49, 115, 116 >>
ExampleTimestamp == 1699800000
NorthText == << 110, 111, 114, 116, 104 >>
SouthText == << 115, 111, 117, 116, 104 >>
EastText == << 101, 97, 115, 116 >>
WestText == << 119, 101, 115, 116 >>

\* a dict with the four directions as keys
PerDirection(n, so, e, w) ==
    << << NorthText, n >>, << SouthText, so >>, << EastText, e >>, << WestText, w >> >>

IntersectionArgs(ss, vc, weather) ==
    [ intersection_id |-> MainFirstText, timestamp |-> ExampleTimestamp,
      signal_states |-> ss, vehicle_counts |-> vc, weather_factor |-> weather ]

\* the example of the docstring: 40 vehicles, two signals RED
ExampleSignals == PerDirection("RED", "GREEN", "RED", "GREEN")
ExampleCounts == PerDirection(15, 8, 12, 5)
\* an empty intersection, every signal GREEN
QuietSignals == PerDirection("GREEN", "GREEN", "GREEN", "GREEN")
QuietCounts == PerDirection(0, 0, 0, 0)
\* 50 vehicles, above the capacity of 40
CrowdedCounts == PerDirection(20, 10, 15, 5)

\* a previous hash of 64 hexadecimal characters, and the genesis "0"
ZeroHash == Repeat(<< 48 >>, 64)
GenesisHash == << 48 >>
\* "tx1", "tx2"
Tx1Text == << 116, 120, 49 >>
Tx2Text == << 116, 120, 50 >>

BlockArgs(prev_hash, ts, txs, n, congestion) ==
    [ block_index |-> 1, previous_hash |-> prev_hash, timestamp |-> ts,
      transactions |-> txs, nonce |-> n, network_congestion |-> congestion ]

\* pairs of calls run by two threads
ThreadCalls ==
    << \* the same call twice
      << DirectCall(BlockText, 0, "RED", -6), DirectCall(BlockText, 0, "RED", -6) >>,
      << DirectCall(EmptyText, 0, "GREEN", 0), DirectCall(EmptyText, 0, "GREEN", 0) >>,
      \* two calls of different length
      << DirectCall(QuickText, 20000, "YELLOW", 0), DirectCall(BlockText, 0, "RED", -6) >>,
      \* the two derived functions, each with a short call
      << DerivedCall("intersection_hash", IntersectionArgs(QuietSignals, QuietCounts, 10)),
         DirectCall(BlockText, 0, "RED", -6) >>,
      << DirectCall(BlockText, 0, "RED", -6),
         DerivedCall("block_hash_with_traffic",
                     BlockArgs(ZeroHash, ExampleTimestamp, << Tx1Text >>, 0, 0)) >> >>

\* pairs of calls made one after the other
SequentialCalls ==
    << \* verify_different_inputs, and its two texts in one context
      << DirectCall(GreenText, 50000, "GREEN", 0), DirectCall(RedText, 50000, "RED", 0) >>,
      << DirectCall(GreenText, 50000, "GREEN", 0), DirectCall(RedText, 50000, "GREEN", 0) >>,
      \* two short texts in one context
      << DirectCall(EmptyText, 50000, "GREEN", 0), DirectCall(AccentText, 50000, "GREEN", 0) >>,
      \* mining_simulation: block_data + str(nonce) for nonce 0 and 1
      << DirectCall(MiningText \o IntStr(0), 20000, "GREEN", 0),
         DirectCall(MiningText \o IntStr(1), 20000, "GREEN", 0) >>,
      \* intersections: the docstring's example, rain and a weather factor
      \* out of [0,1], counts above the capacity
      << DerivedCall("intersection_hash", IntersectionArgs(ExampleSignals, ExampleCounts, 8)),
         DerivedCall("intersection_hash", IntersectionArgs(ExampleSignals, ExampleCounts, -5)) >>,
      << DerivedCall("intersection_hash", IntersectionArgs(ExampleSignals, CrowdedCounts, 15)),
         DerivedCall("intersection_hash", IntersectionArgs(QuietSignals, CrowdedCounts, 10)) >>,
      \* two blocks on one previous hash that differ in timestamp,
      \* transactions and nonce
      << DerivedCall("block_hash_with_traffic",
                     BlockArgs(ZeroHash, ExampleTimestamp, << Tx1Text >>, 0, 50000)),
         DerivedCall("block_hash_with_traffic",
                     BlockArgs(ZeroHash, ExampleTimestamp + 1, << Tx1Text, Tx2Text >>, 1,
                               50000)) >>,
      << DerivedCall("block_hash_with_traffic",
                     BlockArgs(GenesisHash, ExampleTimestamp, << Tx1Text >>, 0, 50000)),
         DerivedCall("block_hash_with_traffic",
                     BlockArgs(GenesisHash, ExampleTimestamp, << Tx1Text >>, 1, 50000)) >> >>

\* call c with the result it gives when it runs alone
WithAlone(c) ==
    [c EXCEPT !.alone =
        IF c.fn = "intersection_hash" THEN intersection_hash(c.args)
        ELSE IF c.fn = "block_hash_with_traffic" THEN block_hash_with_traffic(c.args)
        ELSE result_alone(c.input_data, c.traffic_density, c.signal_state, c.urgency)]

\* no TrafficAdaptiveCA instance exists yet
NoAutomata == [i \in Procs |-> None]

ThreadInit ==
    /\ \E k \in 1..Len(ThreadCalls) :
           calls = << WithAlone(ThreadCalls[k][1]), WithAlone(ThreadCalls[k][2]) >>
    /\ automata = NoAutomata
    /\ scheduler = "threads"
    /\ NoSingleCall

SequentialInit ==
    /\ \E k \in 1..Len(SequentialCalls) : calls = SequentialCalls[k]
    /\ automata = NoAutomata
    /\ scheduler = "sequential"
    /\ NoSingleCall

\* two calls run by two threads, their steps interleaved in any order
ThreadSpec == ThreadInit /\ [][CallNext]_<< callVars, vars >>

\* two calls made one after the other
SequentialSpec == SequentialInit /\ [][CallNext]_<< callVars, vars >>

\* the arguments that reach traffic_adaptive_hash in call p
Context(p) ==
    << calls[p].input_data, calls[p].traffic_density, calls[p].signal_state,
       calls[p].urgency >>

\* C11: the digest of a call is a function of its four arguments only:
\* calls with the same arguments return the same digest, and a call whose
\* steps are interleaved in any order with those of another call returns
\* what it returns when it runs alone; each call works on its own automaton.
C11_CallsIndependent ==
    /\ \A p \in Procs :
           calls[p].pc = "done" => calls[p].hash_hex = calls[p].alone
    /\ \A p, q \in Procs :
           (calls[p].pc = "done" /\ calls[q].pc = "done" /\ Context(p) = Context(q))
               => calls[p].hash_hex = calls[q].hash_hex
    /\ (calls[1].ca # 0 /\ calls[2].ca # 0) => calls[1].ca # calls[2].ca

\* C11 witness: call 1 has returned its digest while call 2, seeded before
\* that and given the same arguments, is in the middle of its generations.
C11_Witness ==
    /\ scheduler = "threads"
    /\ calls[1].pc = "done"
    /\ calls[1].hash_hex = calls[1].alone
    /\ calls[2].pc = "evolve"
    /\ calls[2].gen > 0
    /\ calls[2].gen < calls[2].steps
    /\ calls[1].input_data = calls[2].input_data

BothReturned == calls[1].pc = "done" /\ calls[2].pc = "done"

\* C12: for any two distinct input texts the digests returned by
\* traffic_adaptive_hash differ, also when both texts are hashed under the
\* same density, signal state and urgency.
C12_DistinctTextsDistinctDigests ==
    ( /\ BothReturned
      /\ calls[1].fn = "traffic_adaptive_hash"
      /\ calls[2].fn = "traffic_adaptive_hash"
      /\ calls[1].input_data # calls[2].input_data )
        => calls[1].hash_hex # calls[2].hash_hex

\* C13: for every vehicle_counts and every weather_factor (above 1 or below
\* 0 included, totals above 40 included) the density that intersection_hash
\* passes to traffic_adaptive_hash lies in [0,1].
C13_IntersectionDensityInRange ==
    \A p \in Procs :
        (calls[p].fn = "intersection_hash" /\ calls[p].pc # "intersection_hash")
            => (0 <= calls[p].traffic_density /\ calls[p].traffic_density <= DenScale)

\* the text "<block_index>|<previous_hash>"
BlockPrefix(a) == IntStr(a.block_index) \o << 124 >> \o a.previous_hash

\* two returned calls of block_hash_with_traffic with the same block_index,
\* previous_hash and network_congestion, the prefix taking 32 bytes or more
SameFullPrefix ==
    /\ BothReturned
    /\ calls[1].fn = "block_hash_with_traffic"
    /\ calls[2].fn = "block_hash_with_traffic"
    /\ calls[1].args.block_index = calls[2].args.block_index
    /\ calls[1].args.previous_hash = calls[2].args.previous_hash
    /\ calls[1].args.network_congestion = calls[2].args.network_congestion
    /\ Len(Utf8Encode(BlockPrefix(calls[1].args))) >= 32

\* C14: for a fixed block_index, a fixed previous_hash whose text
\* "<block_index>|<previous_hash>" is at least 32 bytes long and a fixed
\* network_congestion, block_hash_with_traffic returns the same digest for
\* every nonce, every timestamp and every transaction list.
C14_NonceIgnored ==
    SameFullPrefix => calls[1].hash_hex = calls[2].hash_hex

\* C14 witness: two blocks on the same 64-character previous hash, with
\* different nonce, timestamp and transactions, have returned one digest.
C14_Witness ==
    /\ SameFullPrefix
    /\ calls[1].args.nonce # calls[2].args.nonce
    /\ calls[1].args.timestamp # calls[2].args.timestamp
    /\ calls[1].args.transactions # calls[2].args.transactions
    /\ calls[1].input_data # calls[2].input_data
    /\ calls[1].hash_hex = calls[2].hash_hex

\* the state s with the cells at offsets -5, -4 and -3 of cell i replaced by
\* the three bits of m
WithFarLeft(s, i, m) ==
    [k \in 1..size |->
        IF k - 1 = (i - 5) % size THEN BitOf(m, 2)
        ELSE IF k - 1 = (i - 4) % size THEN BitOf(m, 1)
        ELSE IF k - 1 = (i - 3) % size THEN BitOf(m, 0)
        ELSE s[k]]

\* the window value w with its bit k inverted
FlipBit(w, k) == IF BitOf(w, k) = 1 THEN w - 2 ^ k ELSE w + 2 ^ k

\* C15: with radius 5 the new value of cell i depends only on the eight
\* cells at offsets -2..+5 of the prior generation: whatever the cells at
\* offsets -5, -4 and -3 hold, the new bit is the same; with radius 2 and
\* radius 3 every cell of the window can influence the new bit (for each
\* position of the window some window value gives another bit when the cell
\* at that position is inverted).
C15_Radius5LowWindow ==
    /\ (JustEvolved /\ radius = 5) =>
           \A i \in 0..(size - 1) : \A m \in 0..7 :
               new_cell(WithFarLeft(prev, i, m), i, rule, radius) = At(state, i)
    /\ (JustEvolved /\ gen = 1 /\ radius \in { 2, 3 }) =>
           \A rule_no \in { 30, 90, 110, 184 } : \A k \in 0..(2 * radius) :
               \E w \in 0..(2 ^ (2 * radius + 1) - 1) :
                   apply_rule(rule_no, radius, w) # apply_rule(rule_no, radius, FlipBit(w, k))

\* C15 witness: a radius-5 generation in which cell 0 has set cells at
\* offsets -5 and -4 (cells 251 and 252) and takes the value it takes with
\* the three far cells cleared.
C15_Witness ==
    /\ JustEvolved /\ radius = 5
    /\ At(prev, 251) = 1 /\ At(prev, 252) = 1
    /\ At(state, 0) = new_cell(WithFarLeft(prev, 0, 0), 0, rule, radius)

====
